---- MODULE Spec2Model ----
(***************************************************************************)
(* Model of moodle.py: MoodleEvent (an activity record over quiz.xml or    *)
(* assign.xml), its calendar rewrite, and MoodleCourse (the index built    *)
(* from moodle_backup.xml and the archive writer).                         *)
(*                                                                         *)
(* XML text nodes are modelled as tagged values: <<"str", n>> is the       *)
(* decimal string of n, <<"int", n>> the Python integer n and              *)
(* <<"none", 0>> an absent text (None), so that str(), the timestamp parse *)
(* and ElementTree's serialisation are conversions and not the identity.   *)
(***************************************************************************)
EXTENDS Integers, Sequences, FiniteSets, TLC

VARIABLES manifest, actFile, calFile, cwd, status, activity_sequence,
          activities, recs, kindOrder, mutated, ret, log

vars == <<manifest, actFile, calFile, cwd, status, activity_sequence,
          activities, recs, kindOrder, mutated, ret, log>>

disk == <<manifest, actFile, calFile>>

(* ---------------------------- bounds ----------------------------------- *)
\* longest manifest drawn in InitLoad
MaxActs == 2
\* most calendar entries a calendar.xml starts with
MaxCal == 3

Dirs == {"d1", "d2"}
Mids == {101, 102}
\* the epochs a caller writes into a field
Epochs == {1500}
\* datetimes handed to set_start_datetime / set_end_datetime: a wall clock
\* reading and its offset from UTC, both in seconds
DateTimes == {[wall |-> 1000, off |-> -500]}
Home == "/home"
CoursePath == "/course"
\* output paths handed to MoodleCourse.write; the directory "missing" does
\* not exist
OutputPaths == {"out.mbz", "missing/out.mbz"}

(* ------------------------- class tables -------------------------------- *)
\* MoodleCourse.modname_to_class
Kinds == {"quiz", "assign"}
ModNames == Kinds \cup {"forum"}

\* MoodleQuiz.event_keys / MoodleHomework.event_keys
event_keys(kind) ==
    IF kind = "quiz"
    THEN [start |-> "timeopen", close |-> "timeclose"]
    ELSE [start |-> "allowsubmissionsfromdate", close |-> "duedate"]

Keys == {"id", "moduleid", "timeopen", "timeclose",
         "allowsubmissionsfromdate", "duedate"}

(* --------------------------- text values ------------------------------- *)
\* Python str(n)
Str(n) == <<"str", n>>
None == <<"none", 0>>
PyInt(n) == <<"int", n>>

\* xml.etree serialisation of a text node followed by a parse of the written
\* file: `if text: write(_escape_cdata(text))`, so a false value (None, the
\* integer 0) is written as an empty element, which parses back as None
Serialize(t) == IF t[1] = "str" THEN t ELSE None

\* arrow.get(epoch, tzinfo=...).timestamp for a decimal string
Timestamp(t) == t[2]

\* arrow.get(datetime).to('utc').timestamp
UtcTimestamp(dt) == dt.wall - dt.off

(* --------------------------- files on disk ----------------------------- *)
\* quiz.xml / assign.xml of a directory: the activity element's moduleid
\* attribute, its number of children, and the first child's id attribute and
\* named leaf fields
NewFile(kind, mid, n) ==
    [moduleid |-> mid, nevents |-> n, id |-> 7,
     event |-> (event_keys(kind).start :> Str(1000)) @@
               (event_keys(kind).close :> Str(1500))]

\* a calendar.xml entry as found before any sync
OldEntry == [timestart |-> Str(7), timeduration |-> Str(7)]

\* calendar.xml with n entries
NewCalendar(n) == [i \in 1..n |-> OldEntry]

(* ----------------------- MoodleEvent.__init__ -------------------------- *)
\* the record parsed from the kind's file in directory dir; rel_id is 0 until
\* the course assigns it
MoodleEvent(kind, dir) ==
    [kind |-> kind, dir |-> dir,
     moduleid |-> actFile[<<dir, kind>>].moduleid,
     id |-> actFile[<<dir, kind>>].id,
     event |-> actFile[<<dir, kind>>].event,
     modified |-> FALSE, rel_id |-> 0]

\* __getitem__: the id attribute, the moduleid attribute as an integer, or
\* the text of the named field
getitem(rec, k) ==
    IF k = "id" THEN rec.id
    ELSE IF k = "moduleid" THEN rec.moduleid
    ELSE rec.event[k]

\* `if len(self.activity) != 1: raise`
OneEvent(kind, dir) == actFile[<<dir, kind>>].nevents = 1

(* ------------------------- MoodleCourse load --------------------------- *)
\* _load_activity_sequence
load_activity_sequence == [i \in DOMAIN manifest |-> manifest[i].moduleid]

\* list.index, 0-based; -1 stands for the ValueError of an absent value
Index(seq, m) ==
    IF \E j \in DOMAIN seq : seq[j] = m
    THEN (CHOOSE j \in DOMAIN seq :
              seq[j] = m /\ \A h \in 1..(j - 1) : seq[h] # m) - 1
    ELSE -1

\* manifest positions of the activities with a supported module name
Supported == {i \in DOMAIN manifest : manifest[i].modulename \in Kinds}

\* the records constructed in the manifest scan, by manifest position
Constructed ==
    [i \in Supported |-> MoodleEvent(manifest[i].modulename, manifest[i].directory)]

\* the bucket of a kind in discovery order
Discovered(kind) ==
    SelectSeq([i \in DOMAIN manifest |-> i],
              LAMBDA i : manifest[i].modulename = kind)

\* sorted() is stable: x goes after every element whose key is not larger
RECURSIVE InsertByKey(_, _, _)
InsertByKey(x, s, key) ==
    IF s = <<>> THEN <<x>>
    ELSE IF key[x] < key[Head(s)] THEN <<x>> \o s
    ELSE <<Head(s)>> \o InsertByKey(x, Tail(s), key)

RECURSIVE SortedByKey(_, _)
SortedByKey(s, key) ==
    IF s = <<>> THEN <<>>
    ELSE InsertByKey(s[Len(s)], SortedByKey(SubSeq(s, 1, Len(s) - 1), key), key)

\* a faulty sort that keeps discovery order
sort_activity_type_unsorted(items, seq, R) == items

\* _sort_activity_type: the bucket sorted by the position of each record's
\* moduleid in the declared sequence
sort_activity_type(items, seq, R) ==
    SortedByKey(items, [i \in DOMAIN R |-> Index(seq, getitem(R[i], "moduleid"))])

\* the key lambda raises ValueError for some record of the bucket
SortFails(items, seq, R) ==
    \E j \in DOMAIN items : Index(seq, getitem(R[items[j]], "moduleid")) = -1

\* _load_activites: the outcome of the load, and the buckets and records
load_activites ==
    LET seq == load_activity_sequence
        R == Constructed
    IN IF \E i \in Supported :
              ~OneEvent(manifest[i].modulename, manifest[i].directory)
       THEN [outcome |-> "OneEvent"]
       ELSE IF \E k \in Kinds : SortFails(Discovered(k), seq, R)
       THEN [outcome |-> "ValueError"]
       ELSE LET A == [k \in Kinds |-> sort_activity_type(Discovered(k), seq, R)]
                relid(i) == CHOOSE j \in DOMAIN A[R[i].kind] : A[R[i].kind][j] = i
            IN [outcome |-> "ok", activities |-> A,
                recs |-> [i \in Supported |-> [R[i] EXCEPT !.rel_id = relid(i)]]]

NoActivities == [k \in Kinds |-> <<>>]
\* what the last call did: the operation, how it ended ("ok" or the error
\* raised), the record it was about or returned (0: none), and its string
\* and integer arguments
Result(op, outcome, r, arg, n) ==
    [op |-> op, outcome |-> outcome, rec |-> r, arg |-> arg, val |-> n]
NoRet == Result("none", "ok", 0, "", 0)

\* MoodleCourse.__init__: the order in which dict.values() yields the two
\* buckets is fixed per course object but not by the language
Load ==
    /\ status = "new"
    /\ LET L == load_activites IN
       IF L.outcome = "ok"
       THEN /\ status' = "loaded"
            /\ activity_sequence' = load_activity_sequence
            /\ activities' = L.activities
            /\ recs' = L.recs
            /\ kindOrder' \in {<<"quiz", "assign">>, <<"assign", "quiz">>}
            /\ ret' = Result("load", "ok", 0, "", 0)
       ELSE /\ status' = "failed"
            /\ ret' = Result("load", L.outcome, 0, "", 0)
            /\ UNCHANGED <<activity_sequence, activities, recs, kindOrder>>
    /\ log' = <<>>
    /\ UNCHANGED <<manifest, actFile, calFile, cwd, mutated>>

\* get_activity_by_type_and_num: a Python list index, so -len..-1 count from
\* the end and anything else outside 0..len-1 raises IndexError
get_activity_by_type_and_num(type, relative_number) ==
    LET b == activities[type]
        i == relative_number - 1
    IN IF 0 <= i /\ i < Len(b)
       THEN Result("get_activity", "ok", b[i + 1], type, relative_number)
       ELSE IF -Len(b) <= i /\ i < 0
       THEN Result("get_activity", "ok", b[Len(b) + i + 1], type, relative_number)
       ELSE Result("get_activity", "IndexError", 0, type, relative_number)

Ordinals == (0 - MaxActs - 1)..(MaxActs + 1)

GetActivity(type, n) ==
    /\ status = "loaded"
    /\ ret' = get_activity_by_type_and_num(type, n)
    /\ log' = <<>>
    /\ UNCHANGED <<manifest, actFile, calFile, cwd, status, activity_sequence,
                   activities, recs, kindOrder, mutated>>

(* --------------------------- initial states ---------------------------- *)
Entries == [moduleid : Mids, modulename : ModNames, directory : Dirs]

RECURSIVE SeqsUpTo(_, _)
SeqsUpTo(S, n) ==
    IF n = 0 THEN {<<>>}
    ELSE LET P == SeqsUpTo(S, n - 1)
         IN P \cup {Append(s, x) : s \in {p \in P : Len(p) = n - 1}, x \in S}

\* before MoodleCourse(path): any manifest of up to MaxActs activities; each
\* directory holds one module, whose files carry its moduleid, and the files
\* of at most one directory hold two events
InitLoad ==
    /\ manifest \in SeqsUpTo(Entries, MaxActs)
    /\ \E mid \in [Dirs -> Mids], bad \in Dirs \cup {"none"} :
          actFile = [f \in Dirs \X Kinds |->
                        NewFile(f[2], mid[f[1]], IF f[1] = bad THEN 2 ELSE 1)]
    /\ calFile = [d \in Dirs |-> NewCalendar(1)]
    /\ cwd = Home
    /\ status = "new"
    /\ activity_sequence = <<>>
    /\ activities = NoActivities
    /\ recs = <<>>
    /\ kindOrder = <<"quiz", "assign">>
    /\ mutated = {}
    /\ ret = NoRet
    /\ log = <<>>

NextLoad ==
    \/ Load
    \/ \E t \in Kinds, n \in Ordinals : GetActivity(t, n)

SpecLoad == InitLoad /\ [][NextLoad]_vars

(* ------------------------- MoodleEvent access -------------------------- *)
\* __setitem__ without the test of the key
setitem_unguarded(rec, k, v) ==
    IF k \notin DOMAIN rec.event
    THEN [rec |-> rec, outcome |-> "AttributeError"]
    ELSE [rec |-> [rec EXCEPT !.event[k] = v, !.modified = TRUE], outcome |-> "ok"]

\* __setitem__ that marks the record before looking the field up
setitem_mark_first(rec, k, v) ==
    IF k \notin DOMAIN rec.event
    THEN [rec |-> [rec EXCEPT !.modified = TRUE],
          outcome |-> IF k = "id" \/ k = "moduleid" THEN "NotAllowed"
                      ELSE "AttributeError"]
    ELSE [rec |-> [rec EXCEPT !.event[k] = v, !.modified = TRUE], outcome |-> "ok"]

\* __setitem__: the record after the call and how the call ended;
\* event.find(k) is None for a field the event does not have, and the
\* assignment to its text raises AttributeError
setitem(rec, k, v) ==
    IF k = "id" \/ k = "moduleid"
    THEN [rec |-> rec, outcome |-> "NotAllowed"]
    ELSE IF k \notin DOMAIN rec.event
    THEN [rec |-> rec, outcome |-> "AttributeError"]
    ELSE [rec |-> [rec EXCEPT !.event[k] = v, !.modified = TRUE], outcome |-> "ok"]

\* the values handed to __setitem__
Values == {Str(e) : e \in Epochs}

RecIds == DOMAIN recs

Assign(op, r, k, v) ==
    LET S == setitem(recs[r], k, v) IN
    /\ recs' = [recs EXCEPT ![r] = S.rec]
    /\ mutated' = IF S.outcome = "ok" THEN mutated \cup {r} ELSE mutated
    /\ ret' = Result(op, S.outcome, r, k, 0)
    /\ log' = <<>>
    /\ UNCHANGED <<manifest, actFile, calFile, cwd, status, activity_sequence,
                   activities, kindOrder>>

\* record[k] = v
SetItem(r, k, v) ==
    /\ status = "loaded"
    /\ r \in RecIds
    /\ Assign("set", r, k, v)

\* set_start_datetime
SetStart(r, dt) ==
    /\ status = "loaded"
    /\ r \in RecIds
    /\ Assign("set_start", r, event_keys(recs[r].kind).start, Str(UtcTimestamp(dt)))

\* set_end_datetime
SetEnd(r, dt) ==
    /\ status = "loaded"
    /\ r \in RecIds
    /\ Assign("set_end", r, event_keys(recs[r].kind).close, Str(UtcTimestamp(dt)))

\* get_start_timestamp / get_end_timestamp
get_start_timestamp(rec) == Timestamp(rec.event[event_keys(rec.kind).start])
get_end_timestamp(rec) == Timestamp(rec.event[event_keys(rec.kind).close])

(* ------------------------- MoodleEvent.write --------------------------- *)
\* a shape test that lets calendars of three and more entries through
Unimplemented_only_empty(events) == Len(events) < 1

\* `if len(events) > 2 or len(events) < 1: raise Exception('Unimplemented')`
Unimplemented(events) == Len(events) > 2 \/ Len(events) < 1

\* the calendar tree after the assignments of _write_calendar
SyncedEvents(rec, events) ==
    LET s == get_start_timestamp(rec)
        e0 == [events[1] EXCEPT !.timestart = Str(s), !.timeduration = PyInt(0)]
    IN IF Len(events) > 1
       THEN LET c == get_end_timestamp(rec) IN
            [events EXCEPT
               ![1] = [e0 EXCEPT !.timeduration = Str(c - s)],
               ![2] = [@ EXCEPT !.timeduration = PyInt(0), !.timestart = Str(c)]]
       ELSE [events EXCEPT ![1] = e0]

\* cal_tree.write: every text node through the serialiser
WrittenEvents(events) ==
    [i \in DOMAIN events |->
        [timestart |-> Serialize(events[i].timestart),
         timeduration |-> Serialize(events[i].timeduration)]]

\* _write_calendar of record r on calendar files cal: calendar.xml of the
\* record's own directory (global_path) is parsed, checked, edited, rewritten
write_calendar(r, cal) ==
    LET rec == recs[r]
        events == cal[rec.dir]
    IN IF Unimplemented(events)
       THEN [outcome |-> "Unimplemented", cal |-> cal, log |-> <<>>]
       ELSE [outcome |-> "ok",
             cal |-> [cal EXCEPT ![rec.dir] = WrittenEvents(SyncedEvents(rec, events))],
             log |-> << <<"cal", r>> >>]

\* tree.write: the record's tree as the content of its file
WrittenFile(rec) ==
    [moduleid |-> rec.moduleid, nevents |-> 1, id |-> rec.id,
     event |-> [k \in DOMAIN rec.event |-> Serialize(rec.event[k])]]

\* a write that rewrites the files of an unmodified record too
write_always(r, act, cal) ==
    LET rec == recs[r]
        C == write_calendar(r, cal)
    IN [outcome |-> C.outcome, rec |-> r,
        act |-> [act EXCEPT ![<<rec.dir, rec.kind>>] = WrittenFile(rec)],
        cal |-> C.cal,
        log |-> << <<"act", r>> >> \o C.log]

\* MoodleEvent.write of record r on disk (act, cal): the disk after the call,
\* the file writes performed, in order, and how the call ended
write(r, act, cal) ==
    LET rec == recs[r] IN
    IF ~rec.modified
    THEN [outcome |-> "ok", rec |-> r, act |-> act, cal |-> cal, log |-> <<>>]
    ELSE LET C == write_calendar(r, cal)
         IN [outcome |-> C.outcome, rec |-> r,
             act |-> [act EXCEPT ![<<rec.dir, rec.kind>>] = WrittenFile(rec)],
             cal |-> C.cal,
             log |-> << <<"act", r>> >> \o C.log]

\* 1 when the call now made on r comes right after a write() of r that
\* returned normally, so that no field was set in between; else 0
Repeated(r) == IF ret.op = "write" /\ ret.rec = r /\ ret.outcome = "ok" THEN 1 ELSE 0

\* activity.write(); ret.val tells whether it repeats the previous call
Write(r) ==
    /\ status = "loaded"
    /\ r \in RecIds
    /\ LET W == write(r, actFile, calFile) IN
       /\ actFile' = W.act
       /\ calFile' = W.cal
       /\ log' = W.log
       /\ ret' = Result("write", W.outcome, r, "", Repeated(r))
    /\ UNCHANGED <<manifest, cwd, status, activity_sequence, activities, recs,
                   kindOrder, mutated>>

(* ------------------------- MoodleCourse.write -------------------------- *)
\* the records in the order of _write_activities_to_disk: bucket by bucket
WriteOrder == activities[kindOrder[1]] \o activities[kindOrder[2]]

\* a loop that goes on to the next activity after an error
RECURSIVE write_activities_keep_going(_, _, _, _)
write_activities_keep_going(order, act, cal, lg) ==
    IF order = <<>>
    THEN [outcome |-> "ok", rec |-> 0, act |-> act, cal |-> cal, log |-> lg]
    ELSE LET W == write(Head(order), act, cal)
             T == write_activities_keep_going(Tail(order), W.act, W.cal, lg \o W.log)
         IN IF W.outcome # "ok" THEN [T EXCEPT !.outcome = W.outcome, !.rec = W.rec]
            ELSE T

\* _write_activities_to_disk: the first error ends the loop
RECURSIVE write_activities_to_disk(_, _, _, _)
write_activities_to_disk(order, act, cal, lg) ==
    IF order = <<>>
    THEN [outcome |-> "ok", rec |-> 0, act |-> act, cal |-> cal, log |-> lg]
    ELSE LET W == write(Head(order), act, cal)
         IN IF W.outcome # "ok"
            THEN [W EXCEPT !.log = lg \o W.log]
            ELSE write_activities_to_disk(Tail(order), W.act, W.cal, lg \o W.log)

\* tarfile.open(full_output_path, "w:gz") raises when the directory of the
\* output path does not exist
OpenFails(output_path) == output_path = "missing/out.mbz"

\* MoodleCourse.write(output_path); add_fails: archive.add raises on some
\* entry. ret.arg tells what became of the archive.
CourseWrite(output_path, add_fails) ==
    /\ status = "loaded"
    /\ LET W == write_activities_to_disk(WriteOrder, actFile, calFile, <<>>) IN
       /\ actFile' = W.act
       /\ calFile' = W.cal
       /\ log' = W.log
       /\ IF W.outcome # "ok"
          THEN /\ cwd' = cwd
               /\ ret' = Result("course_write", W.outcome, W.rec, "none", 0)
          ELSE IF OpenFails(output_path)
          THEN /\ cwd' = CoursePath
               /\ ret' = Result("course_write", "OpenError", 0, "none", 0)
          ELSE IF add_fails
          THEN /\ cwd' = CoursePath
               /\ ret' = Result("course_write", "AddError", 0, "partial", 0)
          ELSE /\ cwd' = cwd
               /\ ret' = Result("course_write", "ok", 0, "complete", 0)
    /\ UNCHANGED <<manifest, status, activity_sequence, activities, recs,
                   kindOrder, mutated>>

(* ------------------------ the editing sessions ------------------------- *)
\* courses of a quiz and a second supported activity, in the quiz's
\* directory or in another one
EditManifests ==
    {<<[moduleid |-> 101, modulename |-> "quiz", directory |-> "d1"],
       [moduleid |-> 102, modulename |-> k, directory |-> d]>> :
        k \in Kinds, d \in Dirs}

\* the directories the manifest names
UsedDirs == {manifest[i].directory : i \in DOMAIN manifest}

Init ==
    /\ manifest \in EditManifests
    /\ actFile = [f \in Dirs \X Kinds |->
                     NewFile(f[2], IF f[1] = "d1" THEN 101 ELSE 102, 1)]
    /\ calFile \in [Dirs -> {NewCalendar(n) : n \in 0..MaxCal}]
    /\ \A d \in Dirs \ UsedDirs : calFile[d] = NewCalendar(1)
    /\ cwd = Home
    /\ status = "new"
    /\ activity_sequence = <<>>
    /\ activities = NoActivities
    /\ recs = <<>>
    /\ kindOrder = <<"quiz", "assign">>
    /\ mutated = {}
    /\ ret = NoRet
    /\ log = <<>>

Next ==
    \/ Load
    \/ \E r \in RecIds, k \in Keys, v \in Values : SetItem(r, k, v)
    \/ \E r \in RecIds, dt \in DateTimes : SetStart(r, dt)
    \/ \E r \in RecIds, dt \in DateTimes : SetEnd(r, dt)
    \/ \E r \in RecIds : Write(r)
    \/ \E o \in OutputPaths, f \in BOOLEAN : CourseWrite(o, f)

Spec == Init /\ [][Next]_vars

(* ------------------------- claims on the index ------------------------- *)
\* positions of the manifest's activities of a kind
OfKind(kind) == {i \in DOMAIN manifest : manifest[i].modulename = kind}

\* the moduleid attribute in the file of the activity at manifest position i
OwnModuleId(i) ==
    actFile[<<manifest[i].directory, manifest[i].modulename>>].moduleid

\* 1-based position of the first manifest activity declaring moduleid m (0: none)
DeclaredAt(m) ==
    IF \E j \in DOMAIN manifest : manifest[j].moduleid = m
    THEN CHOOSE j \in DOMAIN manifest :
            /\ manifest[j].moduleid = m
            /\ \A h \in DOMAIN manifest : manifest[h].moduleid = m => j <= h
    ELSE 0

\* C3: get_by_kind_and_ordinal(kind, ordinal) returns the record at 1-based
\* position ordinal of the kind's bucket when 1 <= ordinal <= len(bucket) and
\* fails with an out-of-range error for every other ordinal, 0 and negative
\* ordinals included.
C3_OrdinalLookup ==
    ret.op = "get_activity" =>
        IF 1 <= ret.val /\ ret.val <= Len(activities[ret.arg])
        THEN ret.outcome = "ok" /\ ret.rec = activities[ret.arg][ret.val]
        ELSE ret.outcome = "IndexError"

\* C7: after load each kind's bucket holds exactly the manifest's activities
\* of that kind, once each, in the order of the positions of the records' own
\* moduleids in the declared sequence, the record at 0-based index i has
\* rel_id = i + 1, and load fails when a record's own moduleid is absent from
\* the declared sequence.
C7_BucketsSorted ==
    /\ status = "loaded" =>
          \A k \in Kinds :
             LET b == activities[k] IN
             /\ {b[j] : j \in DOMAIN b} = OfKind(k)
             /\ Len(b) = Cardinality(OfKind(k))
             /\ \A j \in DOMAIN b :
                   /\ recs[b[j]].rel_id = j
                   /\ recs[b[j]].kind = k
                   /\ DeclaredAt(OwnModuleId(b[j])) >= 1
             /\ \A i, j \in DOMAIN b :
                   i < j => DeclaredAt(OwnModuleId(b[i])) <= DeclaredAt(OwnModuleId(b[j]))
    /\ (status # "new" /\ \E i \in Supported : DeclaredAt(OwnModuleId(i)) = 0)
          => status = "failed" /\ ret.outcome \in {"ValueError", "OneEvent"}

\* a load whose quiz bucket is not in discovery order
C7_Witness ==
    /\ status = "loaded"
    /\ Len(activities["quiz"]) = 2
    /\ activities["quiz"][1] > activities["quiz"][2]

(* ----------------------- claims on the records ------------------------- *)
\* the calendar.xml record r syncs
CalOf(r) == calFile[recs[r].dir]

\* the start and close epochs held by record r's fields
StartOf(r) == recs[r].event[IF recs[r].kind = "quiz" THEN "timeopen"
                            ELSE "allowsubmissionsfromdate"][2]
CloseOf(r) == recs[r].event[IF recs[r].kind = "quiz" THEN "timeclose"
                            ELSE "duedate"][2]

\* C1: a write() that follows a write() of the same record with no field
\* mutation in between is a no-op: it rewrites neither the activity's XML
\* file nor calendar.xml.
C1_SecondWriteNoop ==
    (ret.op = "write" /\ ret.val = 1) => log = <<>>

\* C2: whenever MoodleCourse.write ends, normally or by an error, the
\* working directory is the one in effect when the call started.
C2_CwdRestored ==
    [][ret'.op = "course_write" => cwd' = cwd]_vars

\* C4: set('id', v) and set('moduleid', v) fail with the immutable-field
\* error for every v and in every state, and alter nothing: no field, not
\* the id, not the moduleid, not the modified flag, and no file.
C4_ImmutableFields ==
    [][(ret'.op = "set" /\ ret'.arg \in {"id", "moduleid"})
          => /\ ret'.outcome = "NotAllowed"
             /\ recs' = recs
             /\ mutated' = mutated
             /\ disk' = disk]_vars

\* set('id', v) has been refused on a record modified before
C4_Witness ==
    /\ ret.op = "set"
    /\ ret.arg = "id"
    /\ ret.outcome = "NotAllowed"
    /\ recs[ret.rec].modified

\* the calendar of r, as written, holds the entries of start s and close c
CalendarHolds(events, s, c) ==
    /\ Len(events) = 1 =>
          /\ events[1].timestart = Str(s)
          /\ events[1].timeduration = Str(0)
    /\ Len(events) = 2 =>
          /\ events[1].timestart = Str(s)
          /\ events[1].timeduration = Str(c - s)
          /\ events[2].timestart = Str(c)
          /\ events[2].timeduration = Str(0)

\* C5: after a successful calendar sync for an activity with start s and
\* close c the calendar file holds, with one entry, timestart = s and
\* timeduration = 0, and with two entries {s, c - s} and {c, 0}.
C5_CalendarContent ==
    (ret.op = "write" /\ ret.outcome = "ok" /\ log # <<>>)
        => CalendarHolds(CalOf(ret.rec), StartOf(ret.rec), CloseOf(ret.rec))

\* C6: a calendar file of 0 or of 3 and more entries makes the sync fail
\* with the structural error before any write: the file keeps the content
\* it had, no timestart and no timeduration changed.
C6_BadCalendarUntouched ==
    /\ \A d \in Dirs :
          Len(calFile[d]) \notin {1, 2} =>
             \A i \in DOMAIN calFile[d] : calFile[d][i] = OldEntry
    /\ (/\ ret.op = "write"
        /\ recs[ret.rec].modified
        /\ Len(CalOf(ret.rec)) \notin {1, 2})
          => /\ ret.outcome = "Unimplemented"
             /\ \A i \in DOMAIN log : log[i][1] # "cal"

\* a sync has failed on a calendar of three entries
C6_Witness ==
    /\ ret.op = "write"
    /\ ret.outcome = "Unimplemented"
    /\ Len(CalOf(ret.rec)) = 3

\* C8: the modified flag is false at construction and true exactly when a
\* field write has succeeded since; a failed set leaves it as it was; and
\* write() rewrites files only for a record whose flag is true, so a record
\* never successfully mutated is never written to disk.
C8_ModifiedFlag ==
    /\ status = "loaded" =>
          \A r \in RecIds : recs[r].modified <=> r \in mutated
    /\ ret.op = "load" => \A r \in RecIds : ~recs[r].modified
    /\ \A i \in DOMAIN log : recs[log[i][2]].modified /\ log[i][2] \in mutated

\* a set of a field the record lacks has failed on a record never mutated,
\* while the other record has been
C8_Witness ==
    /\ ret.op = "set"
    /\ ret.outcome = "AttributeError"
    /\ ~recs[ret.rec].modified
    /\ \E r \in RecIds : recs[r].modified

(* --------------------- claims on the archive writer -------------------- *)
\* 1-based position of record r in the write order
PosInOrder(r) == CHOOSE j \in DOMAIN WriteOrder : WriteOrder[j] = r

\* the file of record r
FileOf(r) == <<recs[r].dir, recs[r].kind>>

\* the tree of record r read back from its file
HoldsTreeOf(r) ==
    /\ actFile[FileOf(r)].moduleid = recs[r].moduleid
    /\ actFile[FileOf(r)].id = recs[r].id
    /\ actFile[FileOf(r)].event = recs[r].event

\* C9: when MoodleCourse.write fails while writing an activity, the error
\* propagates at once with no rollback: no later activity of the write
\* order is written, no archive is created, and the files written before
\* the error keep their new content, the failing activity's own XML file
\* included, which is written before its calendar sync runs.
C9_NoRollback ==
    (ret.op = "course_write" /\ ret.outcome = "Unimplemented") =>
        LET f == ret.rec
            p == PosInOrder(f)
        IN /\ ret.arg = "none"
           /\ \A i \in DOMAIN log : PosInOrder(log[i][2]) <= p
           /\ log # <<>> /\ log[Len(log)] = <<"act", f>>
           /\ \A i \in DOMAIN log : log[i] # <<"cal", f>>
           /\ \A j \in 1..(p - 1) :
                 recs[WriteOrder[j]].modified
                    => \E i \in DOMAIN log : log[i] = <<"act", WriteOrder[j]>>
           /\ \A i \in DOMAIN log :
                 (/\ log[i][1] = "act"
                  /\ \A h \in (i + 1)..Len(log) :
                        log[h][1] = "act" => FileOf(log[h][2]) # FileOf(log[i][2]))
                    => HoldsTreeOf(log[i][2])
           /\ \A i \in DOMAIN log :
                 (/\ log[i][1] = "cal"
                  /\ \A h \in (i + 1)..Len(log) :
                        log[h][1] = "cal" => recs[log[h][2]].dir # recs[log[i][2]].dir)
                    => CalOf(log[i][2])[1].timestart = Str(StartOf(log[i][2]))

\* the first activity of the write order has failed and a later, modified
\* one was left unwritten
C9_Witness ==
    /\ ret.op = "course_write"
    /\ ret.outcome = "Unimplemented"
    /\ PosInOrder(ret.rec) = 1
    /\ recs[WriteOrder[2]].modified
    /\ Len(CalOf(WriteOrder[2])) = 1

\* the modified records, in write order
ModifiedInOrder == SelectSeq(WriteOrder, LAMBDA r : recs[r].modified)

\* the calendar writes of the log, in order
CalendarWrites == SelectSeq(log, LAMBDA e : e[1] = "cal")

\* the last modified record of the write order that syncs directory d
LastWriter(d) ==
    LET M == ModifiedInOrder
        j == CHOOSE j \in DOMAIN M :
                /\ recs[M[j]].dir = d
                /\ \A h \in DOMAIN M : recs[M[h]].dir = d => h <= j
    IN M[j]

\* C10: the calendar sync runs once per write of a modified activity and is
\* not batched: a MoodleCourse.write that succeeds rewrites the calendar
\* once per modified activity, in write order, never for an unmodified one,
\* and a calendar shared by several modified activities ends with the start
\* and close timestamps of the one written last.
C10_LastWriteWins ==
    (ret.op = "course_write" /\ ret.outcome = "ok") =>
        /\ CalendarWrites = [j \in DOMAIN ModifiedInOrder |-> <<"cal", ModifiedInOrder[j]>>]
        /\ \A d \in Dirs :
              (\E r \in RecIds : recs[r].modified /\ recs[r].dir = d) =>
                 LET w == LastWriter(d)
                     ev == calFile[d]
                 IN /\ Len(ev) \in {1, 2}
                    /\ ev[1].timestart = Str(StartOf(w))
                    /\ Len(ev) = 2 =>
                          /\ ev[1].timeduration = Str(CloseOf(w) - StartOf(w))
                          /\ ev[2].timestart = Str(CloseOf(w))

\* two modified activities with different start times share a calendar of
\* two entries and the course has been written
C10_Witness ==
    /\ ret.op = "course_write"
    /\ ret.outcome = "ok"
    /\ Len(ModifiedInOrder) = 2
    /\ recs[1].dir = recs[2].dir
    /\ StartOf(1) # StartOf(2)
    /\ Len(calFile[recs[1].dir]) = 2

====
